---- MODULE Spec2Model ----
(***************************************************************************)
(* Live session orchestrator of src/App.tsx (React component App).         *)
(*                                                                         *)
(* The component runs on a single-threaded event loop.  One action of the  *)
(* model is one task of that loop: a click handler, a timer callback, a    *)
(* channel callback or the settlement of a promise, together with every    *)
(* continuation that runs in the same microtask checkpoint, the render     *)
(* that follows and the effects of that render.  An async function is      *)
(* suspended between two actions only where it awaits something that is    *)
(* not already settled.                                                    *)
(*                                                                         *)
(* Closures: stopSession reads transcription, notes and activeAiResponse   *)
(* from the render that created it (useCallback, line 119), so every       *)
(* invocation carries the values of the render it was taken from.          *)
(***************************************************************************)
EXTENDS Integers, Sequences, FiniteSets, TLC

MAX_SESSION_TIME_SECONDS == 600

\* Bounds of the exploration.
MaxSessions == 2
MaxStops == 2
MaxMsgs == 2
MaxTicks == 2
MaxEvents == 3

Sessions == 1 .. MaxSessions

\* Strings are sequences of characters.
Hola == <<"H", "o", "l", "a">>
Mundo == <<" ", "m", "u", "n", "d", "o">>
Space == <<" ">>

\* String.prototype.trim() yields "" exactly when every character is white space.
IsBlank(s) == \A i \in 1 .. Len(s) : s[i] = " "

NoUtterance == <<>>

NoNote == [id |-> 0, type |-> "none", content |-> "", question |-> "", topic |-> ""]

VARIABLES
    isListening, transcription, notes, timeLeft, error, activeAiResponse,
    isGeneratingReport, sessionHistory, isContextualizeEnabled,
    isVoiceResponseEnabled,
    sessionPromiseRef, audioContextRef, mediaStreamRef, timerIntervalRef,
    startPc,      \* per startSession invocation: position of the async function
    captured,     \* per startSession invocation: values closed over by onError's stopSession
    contextualize,\* per startSession invocation: isContextualizeEnabled it closes over
    tools,        \* per session: names of the functions declared to ai.live.connect
    voice,        \* per startSession invocation: isVoiceResponseEnabled its speak closes over
    utterance,    \* what window.speechSynthesis was last handed and has not cancelled
    chan,         \* per session: state of the promise/socket returned by ai.live.connect
    stream,       \* per session: microphone MediaStream
    audio,        \* per session: AudioContext with its script processor
    interval,     \* per session: whether the setInterval timer is live
    stops,        \* the stopSession invocations, in invocation order
    nextId,       \* crypto.randomUUID: next fresh note id
    cur,          \* history variable: number of startSession invocations so far
    log,          \* history variable: transcript events handled since the last reset
    tips,         \* history variable: valid addNote tips handled since the last reset
    elapsed,      \* history variable: interval callbacks run since the last start
    msgCount, tickCount

vars == <<isListening, transcription, notes, timeLeft, error, activeAiResponse,
          isGeneratingReport, sessionHistory, isContextualizeEnabled,
          sessionPromiseRef, audioContextRef, mediaStreamRef, timerIntervalRef,
          isVoiceResponseEnabled, voice, utterance,
          startPc, captured, contextualize, tools, chan, stream, audio, interval, stops, nextId,
          cur, log, tips, elapsed, msgCount, tickCount>>

\* The whole state as one record, so that handlers compose as functions.
Cur ==
    [isListening |-> isListening, transcription |-> transcription, notes |-> notes,
     timeLeft |-> timeLeft, error |-> error, activeAiResponse |-> activeAiResponse,
     isGeneratingReport |-> isGeneratingReport, sessionHistory |-> sessionHistory,
     isContextualizeEnabled |-> isContextualizeEnabled,
     contextualize |-> contextualize, tools |-> tools,
     isVoiceResponseEnabled |-> isVoiceResponseEnabled, voice |-> voice,
     utterance |-> utterance,
     sessionPromiseRef |-> sessionPromiseRef, audioContextRef |-> audioContextRef,
     mediaStreamRef |-> mediaStreamRef, timerIntervalRef |-> timerIntervalRef,
     startPc |-> startPc, captured |-> captured, chan |-> chan, stream |-> stream,
     audio |-> audio, interval |-> interval, stops |-> stops, nextId |-> nextId,
     cur |-> cur, log |-> log, tips |-> tips, elapsed |-> elapsed,
     msgCount |-> msgCount, tickCount |-> tickCount]

Apply(m) ==
    /\ isListening' = m.isListening
    /\ transcription' = m.transcription
    /\ notes' = m.notes
    /\ timeLeft' = m.timeLeft
    /\ error' = m.error
    /\ activeAiResponse' = m.activeAiResponse
    /\ isGeneratingReport' = m.isGeneratingReport
    /\ sessionHistory' = m.sessionHistory
    /\ isContextualizeEnabled' = m.isContextualizeEnabled
    /\ contextualize' = m.contextualize
    /\ tools' = m.tools
    /\ isVoiceResponseEnabled' = m.isVoiceResponseEnabled
    /\ voice' = m.voice
    /\ utterance' = m.utterance
    /\ sessionPromiseRef' = m.sessionPromiseRef
    /\ audioContextRef' = m.audioContextRef
    /\ mediaStreamRef' = m.mediaStreamRef
    /\ timerIntervalRef' = m.timerIntervalRef
    /\ startPc' = m.startPc
    /\ captured' = m.captured
    /\ chan' = m.chan
    /\ stream' = m.stream
    /\ audio' = m.audio
    /\ interval' = m.interval
    /\ stops' = m.stops
    /\ nextId' = m.nextId
    /\ cur' = m.cur
    /\ log' = m.log
    /\ tips' = m.tips
    /\ elapsed' = m.elapsed
    /\ msgCount' = m.msgCount
    /\ tickCount' = m.tickCount

Init ==
    /\ isListening = FALSE
    /\ transcription = <<>>
    /\ notes = <<>>
    /\ timeLeft = MAX_SESSION_TIME_SECONDS
    /\ error = "null"
    /\ activeAiResponse = NoNote
    /\ isGeneratingReport = FALSE
    /\ sessionHistory = <<>>
    /\ isContextualizeEnabled = TRUE
    /\ contextualize = [s \in Sessions |-> TRUE]
    /\ tools = [s \in Sessions |-> {}]
    /\ isVoiceResponseEnabled = FALSE
    /\ voice = [s \in Sessions |-> FALSE]
    /\ utterance = NoUtterance
    /\ sessionPromiseRef = 0
    /\ audioContextRef = 0
    /\ mediaStreamRef = 0
    /\ timerIntervalRef = 0
    /\ startPc = [s \in Sessions |-> "none"]
    /\ captured = [s \in Sessions |-> [transcription |-> <<>>, notes |-> <<>>,
                                       activeAiResponse |-> NoNote]]
    /\ chan = [s \in Sessions |-> "none"]
    /\ stream = [s \in Sessions |-> "none"]
    /\ audio = [s \in Sessions |-> "none"]
    /\ interval = [s \in Sessions |-> FALSE]
    /\ stops = <<>>
    /\ nextId = 1
    /\ cur = 0
    /\ log = <<>>
    /\ tips = <<>>
    /\ elapsed = 0
    /\ msgCount = 0
    /\ tickCount = 0

(***************************************************************************)
(* stopSession (lines 96-119), cut at its awaits.                          *)
(***************************************************************************)

\* The values a stopSession created by the render of state m closes over.
Closure(m) ==
    [transcription |-> m.transcription, notes |-> m.notes,
     activeAiResponse |-> m.activeAiResponse]

EmptyClosure == [transcription |-> <<>>, notes |-> <<>>, activeAiResponse |-> NoNote]

\* An invocation that has returned or thrown keeps only its bookkeeping.
Ended(p, pc) == [p EXCEPT !.pc = pc, !.closure = EmptyClosure, !.live = EmptyClosure]

\* Line 106.
FinalNotes(c) ==
    IF c.activeAiResponse # NoNote THEN Append(c.notes, c.activeAiResponse) ELSE c.notes

\* Complete that puts the record at the end of the history.
CompleteAppendingLast(m, i, res) ==
    LET p == m.stops[i]
        newRecord == [title |-> res.title, report |-> res.report,
                      transcription |-> p.closure.transcription,
                      notes |-> FinalNotes(p.closure),
                      sess |-> p.sess, cause |-> p.cause, live |-> p.live]
    IN [m EXCEPT !.sessionHistory = @ \o <<newRecord>>,
                 !.timerIntervalRef = 0, !.sessionPromiseRef = 0,
                 !.mediaStreamRef = 0, !.audioContextRef = 0,
                 !.isListening = FALSE, !.isGeneratingReport = FALSE,
                 !.transcription = <<>>, !.notes = <<>>,
                 !.activeAiResponse = NoNote,
                 !.log = <<>>, !.tips = <<>>,
                 !.stops[i] = Ended(p, "done")]

\* Lines 109-118: the record is prepended, the refs are nulled, the state is reset.
Complete(m, i, res) ==
    LET p == m.stops[i]
        newRecord == [title |-> res.title, report |-> res.report,
                      transcription |-> p.closure.transcription,
                      notes |-> FinalNotes(p.closure),
                      sess |-> p.sess, cause |-> p.cause, live |-> p.live]
    IN [m EXCEPT !.sessionHistory = <<newRecord>> \o @,
                 !.timerIntervalRef = 0, !.sessionPromiseRef = 0,
                 !.mediaStreamRef = 0, !.audioContextRef = 0,
                 !.isListening = FALSE, !.isGeneratingReport = FALSE,
                 !.transcription = <<>>, !.notes = <<>>,
                 !.activeAiResponse = NoNote,
                 !.log = <<>>, !.tips = <<>>,
                 !.stops[i] = Ended(p, "done")]

\* Lines 88-92: what generateSessionReportAndTitle returns once the request
\* has settled.  "ok": JSON with title and report; "notitle", "noreport": JSON
\* lacking one of them; "fail": rejected request or text that is not JSON.
GenOutcomes == {"ok", "fail", "notitle", "noreport"}

GenResult(outcome) ==
    CASE outcome = "ok" -> [title |-> "remote", report |-> "remote"]
      [] outcome = "notitle" -> [title |-> "timestamp", report |-> "remote"]
      [] outcome = "noreport" -> [title |-> "remote", report |-> "no-report"]
      [] OTHER -> [title |-> "timestamp-error", report |-> "error-report"]

\* Finalize that skips the request only for the empty string.
FinalizeEmptyOnly(m, i) ==
    LET m0 == [m EXCEPT !.utterance = NoUtterance]
    IN IF m.stops[i].closure.transcription = <<>>
       THEN Complete(m0, i, [title |-> "timestamp", report |-> "no-transcript"])
       ELSE [m0 EXCEPT !.isGeneratingReport = TRUE, !.stops[i].pc = "client"]

\* Lines 102-108 with line 76: the speech in progress is cancelled; a blank
\* transcript is answered without any request, so the await of line 108
\* resumes in the same task.  Otherwise the invocation stands at the
\* constructor call of line 77.
Finalize(m, i) ==
    LET m0 == [m EXCEPT !.utterance = NoUtterance]
    IN IF IsBlank(m.stops[i].closure.transcription)
       THEN Complete(m0, i, [title |-> "timestamp", report |-> "no-transcript"])
       ELSE [m0 EXCEPT !.isGeneratingReport = TRUE, !.stops[i].pc = "client"]

\* Line 77 is outside the try block: when the constructor returns, the
\* request of line 80 is issued and the invocation waits for it; when it
\* throws, generateSessionReportAndTitle rejects, the await of line 108 throws
\* and stopSession ends there.  At most one invocation stands at line 77 in
\* a task.
ClientOutcomes == {"ok", "throws"}

NewClient(m, o) ==
    [m EXCEPT !.stops =
        [i \in DOMAIN @ |->
            IF @[i].pc # "client" THEN @[i]
            ELSE IF o = "ok" THEN [@[i] EXCEPT !.pc = "gen"]
            ELSE Ended(@[i], "threw")]]

\* AfterClose without line 100: the microphone tracks are left running.
AfterCloseKeepsMicrophone(m, i) ==
    LET a == m.audioContextRef
    IN IF a = 0 THEN Finalize(m, i)
       ELSE IF m.audio[a] = "running"
            THEN [m EXCEPT !.audio[a] = "closing", !.stops[i].pc = "audio",
                           !.stops[i].ctx = a]
            ELSE [m EXCEPT !.stops[i] = Ended(@, "aborted")]

\* AfterClose that does not wait for audioContext.close() to settle.
AfterCloseNotAwaiting(m, i) ==
    LET ms == m.mediaStreamRef
        a == m.audioContextRef
        m1 == IF ms # 0 THEN [m EXCEPT !.stream[ms] = "stopped", !.stops[i].ms = ms]
              ELSE m
    IN IF a = 0 THEN Finalize(m1, i)
       ELSE IF m1.audio[a] = "running"
            THEN Finalize([m1 EXCEPT !.audio[a] = "closing", !.stops[i].ctx = a], i)
            ELSE [m1 EXCEPT !.stops[i] = Ended(@, "aborted")]

\* Lines 99-101.  The refs are read when the lines run.  AudioContext.close()
\* on a context that is closing or closed rejects (InvalidStateError), which
\* ends the invocation with an unhandled rejection.
AfterClose(m, i) ==
    LET ms == m.mediaStreamRef
        a == m.audioContextRef
        m1 == IF ms # 0 THEN [m EXCEPT !.stream[ms] = "stopped", !.stops[i].ms = ms]
              ELSE m
    IN IF a = 0 THEN Finalize(m1, i)
       ELSE IF m1.audio[a] = "running"
            THEN [m1 EXCEPT !.audio[a] = "closing", !.stops[i].pc = "audio",
                            !.stops[i].ctx = a]
            ELSE [m1 EXCEPT !.stops[i] = Ended(@, "aborted")]

\* The callback of line 98, run once the connect promise is fulfilled.
DoClose(m, i) ==
    LET c == m.stops[i].chan
    IN AfterClose([m EXCEPT !.chan[c] = IF @ = "open" THEN "closing" ELSE @], i)

\* Lines 97-98 and as far as the invocation gets before it has to wait.
Invoke(m, cause, closure, sess) ==
    LET t == m.timerIntervalRef
        c == m.sessionPromiseRef
        i == Len(m.stops) + 1
        p == [pc |-> "run", cause |-> cause, sess |-> sess,
              timer |-> t, chan |-> c, ms |-> 0, ctx |-> 0,
              closure |-> closure, live |-> Closure(m), at |-> m.elapsed]
        m1 == [m EXCEPT !.interval = IF t # 0 THEN [@ EXCEPT ![t] = FALSE] ELSE @,
                        !.stops = Append(@, p)]
    IN IF c = 0 THEN AfterClose(m1, i)
       ELSE IF m.chan[c] = "connecting" THEN [m1 EXCEPT !.stops[i].pc = "close"]
       ELSE IF m.chan[c] = "rejected" THEN [m1 EXCEPT !.stops[i] = Ended(@, "aborted")]
       ELSE DoClose(m1, i)

\* Line 121: the effect runs after a render in which isListening, timeLeft or
\* stopSession differs from the previous render; stopSession differs when
\* transcription, notes or activeAiResponse does (line 119).
Deps(m) == <<m.isListening, m.timeLeft, m.transcription, m.notes, m.activeAiResponse>>

ExpiryEffect(old, m) ==
    IF Deps(old) # Deps(m) /\ m.isListening /\ m.timeLeft <= 0
    THEN Invoke(m, "timer", Closure(m), m.cur)
    ELSE m

\* One task: the handler's result, rendered, with the effect of that render.
Task(m) ==
    \E o \in ClientOutcomes :
        LET m1 == NewClient(ExpiryEffect(Cur, NewClient(m, o)), o)
        IN /\ Len(m1.stops) <= MaxStops
           /\ Apply(m1)

(***************************************************************************)
(* Inbound messages (onMessage, lines 130-148).                            *)
(***************************************************************************)

\* A function call with its args object; a field that is absent or empty is "".
Call(name, tip, question, answer, topic, explanation) ==
    [name |-> name, tip |-> tip, question |-> question, answer |-> answer,
     topic |-> topic, explanation |-> explanation]

AddNote(tip) == Call("addNote", tip, "", "", "", "")
AnswerQuestion(q, a) == Call("answerQuestion", "", q, a, "", "")
ProvideContext(t, e) == Call("provideContext", "", "", "", t, e)

Msg(hasText, text, turn, calls) ==
    [hasText |-> hasText, text |-> text, turnComplete |-> turn, functionCalls |-> calls]

\* The messages the channel delivers in the exploration of the session
\* lifecycle (Spec), and the larger set for the event interpreter (SpecEvents).
LifeMessages ==
    { Msg(TRUE, Hola, FALSE, <<>>),
      Msg(FALSE, <<>>, FALSE, <<AnswerQuestion("q", "a")>>) }

Messages ==
    { Msg(TRUE, Hola, FALSE, <<>>),
      Msg(TRUE, Mundo, FALSE, <<>>),
      Msg(FALSE, <<>>, TRUE, <<>>),
      Msg(FALSE, <<>>, FALSE, <<AnswerQuestion("q", "a")>>),
      Msg(FALSE, <<>>, FALSE, <<ProvideContext("t", "e")>>),
      Msg(FALSE, <<>>, FALSE, <<AddNote("x"), AddNote("y")>>),
      Msg(FALSE, <<>>, FALSE, <<AddNote("y")>>),
      Msg(FALSE, <<>>, FALSE, <<AnswerQuestion("q", "a"), ProvideContext("t", "e")>>),
      Msg(FALSE, <<>>, FALSE, <<Call("deleteNote", "x", "q", "a", "t", "e"),
                                AddNote(""), AnswerQuestion("q", ""),
                                AnswerQuestion("", "a"), ProvideContext("t", ""),
                                ProvideContext("", "e")>>),
      Msg(FALSE, <<>>, FALSE, <<Call("deleteNote", "x", "q", "a", "t", "e"),
                                ProvideContext("t", ""), AddNote("x")>>) }

\* HandleCall that takes an addNote without a tip for a note.
HandleCallAcceptingEmptyTip(m, fc) ==
    IF fc.name = "addNote"
    THEN [m EXCEPT !.notes = Append(@, [id |-> m.nextId, type |-> "tip",
                                        content |-> fc.tip, question |-> "",
                                        topic |-> ""]),
                   !.nextId = @ + 1]
    ELSE IF fc.name = "answerQuestion" /\ fc.question # "" /\ fc.answer # ""
    THEN [m EXCEPT !.activeAiResponse = [id |-> m.nextId, type |-> "qa",
                                         content |-> fc.answer,
                                         question |-> fc.question, topic |-> ""],
                   !.nextId = @ + 1]
    ELSE IF fc.name = "provideContext" /\ fc.topic # "" /\ fc.explanation # ""
    THEN [m EXCEPT !.activeAiResponse = [id |-> m.nextId, type |-> "context",
                                         content |-> fc.explanation,
                                         question |-> "", topic |-> fc.topic],
                   !.nextId = @ + 1]
    ELSE m

\* HandleCall that archives the active note a new card replaces.
HandleCallArchivingReplaced(m, fc) ==
    LET card(type, content, question, topic) ==
            [m EXCEPT !.notes = IF m.activeAiResponse # NoNote
                                THEN Append(@, m.activeAiResponse) ELSE @,
                      !.activeAiResponse = [id |-> m.nextId, type |-> type,
                                            content |-> content,
                                            question |-> question, topic |-> topic],
                      !.nextId = @ + 1]
    IN IF fc.name = "addNote" /\ fc.tip # ""
       THEN [m EXCEPT !.notes = Append(@, [id |-> m.nextId, type |-> "tip",
                                           content |-> fc.tip, question |-> "",
                                           topic |-> ""]),
                      !.nextId = @ + 1]
       ELSE IF fc.name = "answerQuestion" /\ fc.question # "" /\ fc.answer # ""
       THEN card("qa", fc.answer, fc.question, "")
       ELSE IF fc.name = "provideContext" /\ fc.topic # "" /\ fc.explanation # ""
       THEN card("context", fc.explanation, "", fc.topic)
       ELSE m

\* HandleCall that puts a new tip in front of the archive.
HandleCallNewestTipFirst(m, fc) ==
    IF fc.name = "addNote" /\ fc.tip # ""
    THEN [m EXCEPT !.notes = <<[id |-> m.nextId, type |-> "tip", content |-> fc.tip,
                                question |-> "", topic |-> ""]>> \o @,
                   !.nextId = @ + 1]
    ELSE IF fc.name = "answerQuestion" /\ fc.question # "" /\ fc.answer # ""
    THEN [m EXCEPT !.activeAiResponse = [id |-> m.nextId, type |-> "qa",
                                         content |-> fc.answer,
                                         question |-> fc.question, topic |-> ""],
                   !.nextId = @ + 1]
    ELSE IF fc.name = "provideContext" /\ fc.topic # "" /\ fc.explanation # ""
    THEN [m EXCEPT !.activeAiResponse = [id |-> m.nextId, type |-> "context",
                                         content |-> fc.explanation,
                                         question |-> "", topic |-> fc.topic],
                   !.nextId = @ + 1]
    ELSE m

\* Lines 136-145: one function call of the list.
HandleCall(m, fc) ==
    IF fc.name = "addNote" /\ fc.tip # ""
    THEN [m EXCEPT !.notes = Append(@, [id |-> m.nextId, type |-> "tip",
                                        content |-> fc.tip, question |-> "",
                                        topic |-> ""]),
                   !.nextId = @ + 1]
    ELSE IF fc.name = "answerQuestion" /\ fc.question # "" /\ fc.answer # ""
    THEN [m EXCEPT !.activeAiResponse = [id |-> m.nextId, type |-> "qa",
                                         content |-> fc.answer,
                                         question |-> fc.question, topic |-> ""],
                   !.nextId = @ + 1]
    ELSE IF fc.name = "provideContext" /\ fc.topic # "" /\ fc.explanation # ""
    THEN [m EXCEPT !.activeAiResponse = [id |-> m.nextId, type |-> "context",
                                         content |-> fc.explanation,
                                         question |-> "", topic |-> fc.topic],
                   !.nextId = @ + 1]
    ELSE m

\* Line 135: the calls of one message, in listed order.
RECURSIVE HandleCalls(_, _)
HandleCalls(m, calls) ==
    IF calls = <<>> THEN m ELSE HandleCalls(HandleCall(m, Head(calls)), Tail(calls))

EndsWithSpace(t) == t # <<>> /\ t[Len(t)] = " "

\* AppendDelta that merges the leading space of a delta with a space the
\* transcript already ends with.
AppendDeltaMergingSpaces(m, text) ==
    [m EXCEPT !.transcription =
        IF EndsWithSpace(@) /\ text # <<>> /\ Head(text) = " "
        THEN @ \o Tail(text) ELSE @ \o text]

\* Line 131.
AppendDelta(m, text) ==
    [m EXCEPT !.transcription = @ \o text]

\* AppendTurn that adds no second space to a transcript ending with one.
AppendTurnOnce(m) ==
    [m EXCEPT !.transcription = IF EndsWithSpace(@) THEN @ ELSE @ \o Space]

\* Line 132.
AppendTurn(m) ==
    [m EXCEPT !.transcription = @ \o Space]

HandleMessage(m, msg) ==
    LET m1 == IF msg.hasText THEN AppendDelta(m, msg.text) ELSE m
        m2 == IF msg.turnComplete THEN AppendTurn(m1) ELSE m1
    IN HandleCalls(m2, msg.functionCalls)

(***************************************************************************)
(* The tasks of the event loop.                                            *)
(***************************************************************************)

\* The button of line 203 while it reads "Iniciar": startSession up to the
\* await of line 126.  The onError built later calls the stopSession of the
\* render in which the button was clicked.
StartClick ==
    /\ ~isListening /\ ~isGeneratingReport
    /\ cur < MaxSessions
    /\ LET s == cur + 1
           m == [Cur EXCEPT !.error = "null", !.transcription = <<>>, !.notes = <<>>,
                            !.activeAiResponse = NoNote,
                            !.timeLeft = MAX_SESSION_TIME_SECONDS,
                            !.isListening = TRUE,
                            !.startPc[s] = "mic",
                            !.captured[s] = Closure(Cur),
                            !.contextualize[s] = isContextualizeEnabled,
                            !.voice[s] = isVoiceResponseEnabled,
                            !.cur = s, !.log = <<>>, !.tips = <<>>, !.elapsed = 0]
       IN Task(m)

\* Lines 150-151: the function declarations handed to the channel.
DeclaredTools(enabled) ==
    {"addNote", "answerQuestion"} \cup (IF enabled THEN {"provideContext"} ELSE {})

\* getUserMedia resolves: lines 127-161 run to the end.
MicResolve(s) ==
    /\ startPc[s] = "mic"
    /\ LET m == [Cur EXCEPT !.startPc[s] = "done",
                            !.mediaStreamRef = s, !.stream[s] = "live",
                            !.tools[s] = DeclaredTools(contextualize[s]),
                            !.sessionPromiseRef = s, !.chan[s] = "connecting",
                            !.audioContextRef = s, !.audio[s] = "running",
                            !.timerIntervalRef = s, !.interval[s] = TRUE]
       IN Task(m)

\* MicReject that leaves the session listening.
MicRejectKeepingListening(s) ==
    /\ startPc[s] = "mic"
    /\ LET m == [Cur EXCEPT !.startPc[s] = "failed", !.error = "mic"]
       IN Task(m)

\* getUserMedia rejects: line 162.
MicReject(s) ==
    /\ startPc[s] = "mic"
    /\ LET m == [Cur EXCEPT !.startPc[s] = "failed", !.error = "mic",
                            !.isListening = FALSE]
       IN Task(m)

\* The button of line 203 while it reads "Detener".
StopClick ==
    /\ isListening /\ ~isGeneratingReport
    /\ Task(Invoke(Cur, "user", Closure(Cur), cur))

\* The connect promise is fulfilled: every stopSession waiting in line 98
\* goes on, in the order of their then-registrations.
RECURSIVE ResumeClose(_, _, _)
ResumeClose(m, s, i) ==
    IF i > Len(m.stops) THEN m
    ELSE ResumeClose(IF m.stops[i].pc = "close" /\ m.stops[i].chan = s
                     THEN DoClose(m, i) ELSE m,
                     s, i + 1)

ConnectResolve(s) ==
    /\ chan[s] = "connecting"
    /\ Task(ResumeClose([Cur EXCEPT !.chan[s] = "open"], s, 1))

\* The connect promise is rejected: the await of line 98 throws.
RECURSIVE AbortClose(_, _, _)
AbortClose(m, s, i) ==
    IF i > Len(m.stops) THEN m
    ELSE AbortClose(IF m.stops[i].pc = "close" /\ m.stops[i].chan = s
                    THEN [m EXCEPT !.stops[i] = Ended(@, "aborted")] ELSE m,
                    s, i + 1)

ConnectReject(s) ==
    /\ chan[s] = "connecting"
    /\ Task(AbortClose([Cur EXCEPT !.chan[s] = "rejected"], s, 1))

\* What a message adds to the history variables: its transcript events in
\* the order the handler reads them, and the tips of its addNote calls.
Delta(text) == [kind |-> "delta", text |-> text]
Turn == [kind |-> "turn", text |-> <<>>]

EventsOf(msg) ==
    (IF msg.hasText THEN <<Delta(msg.text)>> ELSE <<>>)
        \o (IF msg.turnComplete THEN <<Turn>> ELSE <<>>)

TipsOf(calls) ==
    LET keep(fc) == fc.name = "addNote" /\ fc.tip # ""
        picked == SelectSeq(calls, keep)
    IN [i \in 1 .. Len(picked) |-> picked[i].tip]

\* The text lines 138, 141 and 144 pass to speak for a call they accept.
UtteranceOf(fc) ==
    IF fc.name = "addNote" /\ fc.tip # "" THEN <<"Nota", fc.tip>>
    ELSE IF fc.name = "answerQuestion" /\ fc.question # "" /\ fc.answer # ""
    THEN <<fc.answer>>
    ELSE IF fc.name = "provideContext" /\ fc.topic # "" /\ fc.explanation # ""
    THEN <<fc.topic, fc.explanation>>
    ELSE NoUtterance

\* speak (lines 64-73) as the onMessage of session s holds it: the function
\* of the render whose startSession was clicked (lines 73 and 163).
speak(m, s, text) ==
    IF ~m.voice[s] THEN m ELSE [m EXCEPT !.utterance = text]

\* The speak calls of the loop of line 135.
RECURSIVE SpeakCalls(_, _, _)
SpeakCalls(m, s, calls) ==
    IF calls = <<>> THEN m
    ELSE SpeakCalls(IF UtteranceOf(Head(calls)) # NoUtterance
                    THEN speak(m, s, UtteranceOf(Head(calls))) ELSE m,
                    s, Tail(calls))

\* onmessage of line 153.
OnMessage(s, msg) ==
    /\ chan[s] \in {"open", "closing"}
    /\ Task(SpeakCalls(HandleMessage([Cur EXCEPT !.msgCount = @ + 1,
                                                 !.log = @ \o EventsOf(msg),
                                                 !.tips = @ \o TipsOf(msg.functionCalls)],
                                     msg),
                       s, msg.functionCalls))

\* onerror of line 153 (onError, line 149).
OnError(s) ==
    /\ chan[s] \in {"open", "closing"}
    /\ LET m == [Cur EXCEPT !.chan[s] = "closed", !.error = "session"]
       IN Task(Invoke(m, "error", captured[s], s))

\* onclose of line 153.
OnClose(s) ==
    /\ chan[s] \in {"open", "closing"}
    /\ Task([Cur EXCEPT !.chan[s] = "closed"])

\* The promise of audioContext.close() (line 101) is fulfilled.
AudioClosed(a) ==
    /\ audio[a] = "closing"
    /\ \E i \in 1 .. Len(stops) :
         /\ stops[i].pc = "audio" /\ stops[i].ctx = a
         /\ Task(Finalize([Cur EXCEPT !.audio[a] = "closed"], i))

\* The request of line 80 settles.
GenDone(i, outcome) ==
    /\ i \in 1 .. Len(stops)
    /\ stops[i].pc = "gen"
    /\ Task(Complete(Cur, i, GenResult(outcome)))

\* The interval callback of line 161, k times in a row with nothing in
\* between.  A run of callbacks never skips a render with timeLeft <= 0.
TickSteps == {1, MAX_SESSION_TIME_SECONDS - 1}

Tick(s, k) ==
    /\ interval[s]
    /\ tickCount < MaxTicks
    /\ k = 1 \/ timeLeft - k >= 1
    /\ Task([Cur EXCEPT !.timeLeft = @ - k, !.elapsed = @ + k, !.tickCount = @ + 1])

\* handleArchiveNote that leaves the archived note in the active slot.
handleArchiveNoteKeepingActive(m) ==
    IF m.activeAiResponse # NoNote
    THEN [m EXCEPT !.notes = Append(@, m.activeAiResponse)]
    ELSE m

\* Line 166.
handleArchiveNote(m) ==
    IF m.activeAiResponse # NoNote
    THEN [m EXCEPT !.notes = Append(@, m.activeAiResponse),
                   !.activeAiResponse = NoNote]
    ELSE m

\* A call of handleArchiveNote.  Its button (line 217) exists while a note is
\* active; without one the call is the handler's own no-op.
ArchiveClick == Task(handleArchiveNote(Cur))

\* The switch "Respuestas de Voz" (line 291), never disabled.
VoiceToggle == Task([Cur EXCEPT !.isVoiceResponseEnabled = ~@])

\* The switch "Contextualizar en Vivo" (line 289), disabled while listening.
ContextToggle ==
    /\ ~isListening
    /\ Task([Cur EXCEPT !.isContextualizeEnabled = ~@])

Next ==
    \/ StartClick
    \/ StopClick
    \/ ArchiveClick
    \/ \E s \in Sessions : MicResolve(s)
    \/ \E s \in Sessions : MicReject(s)
    \/ \E s \in Sessions : ConnectResolve(s)
    \/ \E s \in Sessions : ConnectReject(s)
    \/ \E s \in Sessions, msg \in LifeMessages : msgCount < MaxMsgs /\ OnMessage(s, msg)
    \/ \E s \in Sessions : OnError(s)
    \/ \E s \in Sessions : OnClose(s)
    \/ \E a \in Sessions : AudioClosed(a)
    \/ \E i \in 1 .. MaxStops, outcome \in GenOutcomes : GenDone(i, outcome)
    \/ \E s \in Sessions, k \in TickSteps : Tick(s, k)

Spec == Init /\ [][Next]_vars

\* The event interpreter: a single session that receives the full set of
\* messages while the user archives notes, until the user stops it.
NextEvents ==
    \/ cur = 0 /\ StartClick
    \/ StopClick
    \/ ArchiveClick
    \/ ContextToggle
    \/ \E s \in Sessions : MicResolve(s)
    \/ \E s \in Sessions : ConnectResolve(s)
    \/ \E s \in Sessions, msg \in Messages : msgCount < MaxEvents /\ OnMessage(s, msg)
    \/ \E a \in Sessions : AudioClosed(a)
    \/ \E i \in 1 .. MaxStops, outcome \in GenOutcomes : GenDone(i, outcome)

SpecEvents == Init /\ [][NextEvents]_vars

\* Speech output: a single session that receives calls while the user
\* switches the voice responses on and off.
VoiceMessages ==
    { Msg(FALSE, <<>>, FALSE, <<AnswerQuestion("q", "a")>>),
      Msg(TRUE, Hola, FALSE, <<AddNote("x")>>),
      Msg(FALSE, <<>>, FALSE, <<AddNote(""), ProvideContext("t", "e")>>) }

NextVoice ==
    \/ cur = 0 /\ StartClick
    \/ StopClick
    \/ VoiceToggle
    \/ \E s \in Sessions : MicResolve(s)
    \/ \E s \in Sessions : ConnectResolve(s)
    \/ \E s \in Sessions, msg \in VoiceMessages : msgCount < MaxMsgs /\ OnMessage(s, msg)
    \/ \E a \in Sessions : AudioClosed(a)
    \/ \E i \in 1 .. MaxStops, outcome \in GenOutcomes : GenDone(i, outcome)

SpecVoice == Init /\ [][NextVoice]_vars

\* The interval callback of line 161 as the countdown of an unattended
\* session: the callbacks down to the last second in a row, then the last.
Countdown(s) ==
    /\ interval[s]
    /\ timeLeft >= 1
    /\ LET k == IF timeLeft > 1 THEN timeLeft - 1 ELSE 1
       IN Task([Cur EXCEPT !.timeLeft = @ - k, !.elapsed = @ + k])

\* Sessions that nobody stops: the user only starts them.  The browser runs
\* the interval callback while the interval is set and settles every promise
\* the code awaits (getUserMedia, connect, audioContext.close, the request).
NextFair ==
    \/ StartClick
    \/ \E s \in Sessions : MicResolve(s)
    \/ \E s \in Sessions : MicReject(s)
    \/ \E s \in Sessions : ConnectResolve(s)
    \/ \E s \in Sessions : ConnectReject(s)
    \/ \E s \in Sessions, msg \in LifeMessages : msgCount < MaxMsgs /\ OnMessage(s, msg)
    \/ \E s \in Sessions : OnError(s)
    \/ \E a \in Sessions : AudioClosed(a)
    \/ \E i \in 1 .. MaxStops, outcome \in GenOutcomes : GenDone(i, outcome)
    \/ \E s \in Sessions : Countdown(s)

SpecFair ==
    /\ Init /\ [][NextFair]_vars
    /\ WF_vars(\E s \in Sessions : Countdown(s))
    /\ WF_vars(\E s \in Sessions : MicResolve(s) \/ MicReject(s))
    /\ WF_vars(\E s \in Sessions : ConnectResolve(s) \/ ConnectReject(s))
    /\ WF_vars(\E a \in Sessions : AudioClosed(a))
    /\ WF_vars(\E i \in 1 .. MaxStops, outcome \in GenOutcomes : GenDone(i, outcome))

(***************************************************************************)
(* Properties.                                                             *)
(***************************************************************************)

InFlight(i) == stops[i].pc \in {"close", "audio", "gen"}
Stopping == \E i \in 1 .. Len(stops) : InFlight(i)
RecordsOf(s) == {k \in 1 .. Len(sessionHistory) : sessionHistory[k].sess = s}
OpenChannels == {s \in Sessions : chan[s] \in {"connecting", "open"}}

\* C1: the record of every ended session (user stop, timer expiry, channel
\* error) holds the transcript the session had accumulated when the stop
\* began, and the archived notes followed by the active note.
C1_RecordHoldsSessionData ==
    \A k \in 1 .. Len(sessionHistory) :
        LET r == sessionHistory[k]
        IN /\ r.transcription = r.live.transcription
           /\ r.notes = FinalNotes(r.live)

\* C2: no session ever has more than one record, and a begun session whose
\* stop routine has ended (returned or thrown) has exactly one.
Begun(s) == startPc[s] = "done"
StopEnded(s) ==
    /\ \E i \in 1 .. Len(stops) : stops[i].sess = s /\ ~InFlight(i)
    /\ \A i \in 1 .. Len(stops) : stops[i].sess = s => ~InFlight(i)

C2_ExactlyOneRecord ==
    \A s \in Sessions :
        /\ Cardinality(RecordsOf(s)) <= 1
        /\ Begun(s) /\ StopEnded(s) => Cardinality(RecordsOf(s)) = 1

\* C7: at most one streaming channel is open at any time.
C7_AtMostOneChannel == Cardinality(OpenChannels) <= 1

(***************************************************************************)
(* Event interpreter.                                                      *)
(***************************************************************************)

IsCard(fc) ==
    \/ fc.name = "answerQuestion" /\ fc.question # "" /\ fc.answer # ""
    \/ fc.name = "provideContext" /\ fc.topic # "" /\ fc.explanation # ""

Cards(calls) == SelectSeq(calls, IsCard)
LastCard(calls) == Cards(calls)[Len(Cards(calls))]
Range(f) == {f[i] : i \in DOMAIN f}

\* The notes of an archive that existed before a step that starts with
\* nextId = n, and the ones created in it.
Older(ns, n) == SelectSeq(ns, LAMBDA x : x.id < n)
Newer(ns, n) == SelectSeq(ns, LAMBDA x : x.id >= n)

\* C3: a valid answerQuestion or provideContext handled while a note is
\* active makes the new note the active one; the note that was active is
\* dropped, and the archive keeps the notes it had and does not gain it.
C3_Replaces(calls) ==
    LET fc == LastCard(calls)
    IN /\ activeAiResponse'.id >= nextId
       /\ activeAiResponse'.type = (IF fc.name = "answerQuestion" THEN "qa" ELSE "context")
       /\ activeAiResponse'.content =
              (IF fc.name = "answerQuestion" THEN fc.answer ELSE fc.explanation)
       /\ activeAiResponse \notin Range(notes')
       /\ Older(notes', nextId) = notes
       /\ \A x \in Range(Newer(notes', nextId)) : x.type = "tip"

C3_NewCardReplacesActive ==
    [][\A s \in Sessions, msg \in Messages :
          (OnMessage(s, msg) /\ activeAiResponse # NoNote
                             /\ Cards(msg.functionCalls) # <<>>)
              => C3_Replaces(msg.functionCalls)]_vars

C3_Witness ==
    /\ cur = 1 /\ sessionHistory = <<>>
    /\ activeAiResponse.type = "context" /\ activeAiResponse.id = 2
    /\ notes = <<>>

\* C4: every addNote with a non-empty tip appends one tip note to the end of
\* the archive and leaves the active note alone: the tip notes of the archive
\* are the valid addNote calls in call order.
TipContents(ns) ==
    LET picked == SelectSeq(ns, LAMBDA x : x.type = "tip")
    IN [i \in 1 .. Len(picked) |-> picked[i].content]

C4_Appends(calls) ==
    /\ SubSeq(notes', 1, Len(notes)) = notes
    /\ TipContents(SubSeq(notes', Len(notes) + 1, Len(notes'))) = TipsOf(calls)
    /\ Len(notes') = Len(notes) + Len(TipsOf(calls))
    /\ Cards(calls) = <<>> => activeAiResponse' = activeAiResponse

C4_TipsAppendedInCallOrder ==
    /\ [](TipContents(notes) = tips)
    /\ [][\A s \in Sessions, msg \in Messages :
             OnMessage(s, msg) => C4_Appends(msg.functionCalls)]_vars

C4_Witness ==
    /\ tips = <<"x", "y", "y">>
    /\ TipContents(notes) = tips
    /\ activeAiResponse.type = "qa"

\* C5: the transcript is the concatenation, in arrival order, of the deltas
\* and of one space per turn-complete handled since the transcript was last
\* reset (session start, end of finalize); nothing else changes it.
RECURSIVE Flatten(_)
Flatten(events) ==
    IF events = <<>> THEN <<>>
    ELSE (IF Head(events).kind = "turn" THEN <<" ">> ELSE Head(events).text)
             \o Flatten(Tail(events))

C5_TranscriptIsConcatenation == transcription = Flatten(log)

C5_Witness ==
    /\ Len(log) = 3
    /\ log[1].kind = "delta" /\ log[2].kind = "turn" /\ log[3].kind = "turn"
    /\ isListening

\* C6 as stated: "Hola", a turn boundary, " mundo" give "Hola mundo ".
HolaTurnMundo == cur >= 1 /\ log = <<Delta(Hola), Turn, Delta(Mundo)>>

C6_AsStated ==
    HolaTurnMundo =>
        transcription = <<"H", "o", "l", "a", " ", "m", "u", "n", "d", "o", " ">>

\* C6 amended: they give "Hola  mundo": the space of the turn boundary, then
\* the delta with its own leading space, and no trailing space.
C6_HolaTwoSpacesMundo ==
    HolaTurnMundo =>
        transcription = <<"H", "o", "l", "a", " ", " ", "m", "u", "n", "d", "o">>

C6_Witness == HolaTurnMundo /\ isListening

(***************************************************************************)
(* Timer and channel events.                                               *)
(***************************************************************************)

TimerStops(s) == {i \in 1 .. Len(stops) : stops[i].cause = "timer" /\ stops[i].sess = s}

\* C8: the expiry trigger starts the stop once per session, and not before
\* 600 interval callbacks have run.
C8_ExpiryFiresOnce ==
    \A s \in Sessions :
        /\ Cardinality(TimerStops(s)) <= 1
        /\ \A i \in TimerStops(s) : stops[i].at >= MAX_SESSION_TIME_SECONDS

\* A session is running on channel s and not already stopping: it listens,
\* the channel the session ref holds is s and is open, and no stopSession
\* invocation is under way.
Running(s) == isListening /\ ~Stopping /\ sessionPromiseRef = s /\ chan[s] = "open"

\* C9: a channel error in a running session sets the error message, cancels
\* the timer, tears down channel and audio capture and starts a stop that
\* goes on to finalize.
C9_Stops(s) ==
    /\ error' = "session"
    /\ ~interval'[s]
    /\ chan'[s] = "closed"
    /\ stream'[s] = "stopped"
    /\ audio'[s] \in {"closing", "closed"}
    /\ Len(stops') = Len(stops) + 1
    /\ stops'[Len(stops')].cause = "error"
    /\ stops'[Len(stops')].pc \in {"audio", "gen", "done"}

C9_ErrorStopsSession ==
    [][\A s \in Sessions : (OnError(s) /\ Running(s)) => C9_Stops(s)]_vars

C9_Witness ==
    /\ error = "session"
    /\ Len(stops) = 1 /\ stops[1].cause = "error" /\ stops[1].pc = "done"
    /\ Len(sessionHistory) = 1 /\ ~isListening

\* C10: a close of the channel in a running session starts the same stop as
\* a channel error, without an error message.
C10_CloseStopsSession ==
    [][\A s \in Sessions :
          (OnClose(s) /\ Running(s)) =>
              /\ error' = error
              /\ Len(stops') = Len(stops) + 1
              /\ stops'[Len(stops')].pc \in {"audio", "gen", "done"}]_vars

(***************************************************************************)
(* Finalize (generateSessionReportAndTitle and lines 104-118).             *)
(***************************************************************************)

ErrorRecord(r) == r.title = "timestamp-error" /\ r.report = "error-report"

\* C11: for a non-blank transcript, every failure of the summarization (a
\* rejected request or text that is not JSON, JSON without a title, JSON
\* without a report) gives a record whose title is the timestamp title with
\* the error marker and whose report is the fixed error report.
C11_FailureGivesErrorRecord ==
    [][\A i \in 1 .. MaxStops, outcome \in GenOutcomes \ {"ok"} :
          GenDone(i, outcome) => ErrorRecord(sessionHistory'[1])]_vars

\* C12: a transcript that is empty or only white space never has a request
\* in flight, and its record has the plain timestamp title and the fixed
\* no-transcript report.
C12_BlankTranscriptSkipsRequest ==
    /\ \A i \in 1 .. Len(stops) :
           stops[i].pc = "gen" => ~IsBlank(stops[i].closure.transcription)
    /\ \A k \in 1 .. Len(sessionHistory) :
           IsBlank(sessionHistory[k].transcription) =>
               /\ sessionHistory[k].title = "timestamp"
               /\ sessionHistory[k].report = "no-transcript"

C12_Witness ==
    /\ Len(sessionHistory) = 1
    /\ sessionHistory[1].transcription = <<" ", " ">>
    /\ sessionHistory[1].report = "no-transcript"
    /\ \A i \in 1 .. Len(stops) : stops[i].pc = "done"

\* C13: finalize never raises to stopSession: an invocation that has set the
\* finalizing status either waits for the request or has appended its record,
\* and the finalizing status is set only while an invocation waits.
C13_FinalizeNeverRaises ==
    /\ \A i \in 1 .. Len(stops) : stops[i].pc # "threw"
    /\ isGeneratingReport => \E i \in 1 .. Len(stops) : stops[i].pc = "gen"

(***************************************************************************)
(* Malformed calls, the context tool, archiving.                           *)
(***************************************************************************)

IsTip(fc) == fc.name = "addNote" /\ fc.tip # ""
Malformed(fc) == ~IsTip(fc) /\ ~IsCard(fc)
AllOf(calls, P(_)) == \A k \in 1 .. Len(calls) : P(calls[k])

\* C14: a call with an unknown name or with a required field missing or
\* empty changes nothing: a message of such calls only leaves transcript,
\* archive, active note and error as they were, and in a message that mixes
\* them with well-formed calls the well-formed ones still take effect.
C14_Dropped(msg) ==
    LET calls == msg.functionCalls
    IN /\ error' = error
       /\ transcription' = transcription \o Flatten(EventsOf(msg))
       /\ AllOf(calls, Malformed) => notes' = notes /\ activeAiResponse' = activeAiResponse
       /\ SubSeq(notes', 1, Len(notes)) = notes
       /\ TipContents(SubSeq(notes', Len(notes) + 1, Len(notes'))) = TipsOf(calls)
       /\ Len(notes') = Len(SelectSeq(calls, IsTip)) + Len(notes)
       /\ Cards(calls) = <<>> => activeAiResponse' = activeAiResponse
       /\ Cards(calls) # <<>> => activeAiResponse'.content \in
                                     {LastCard(calls).answer, LastCard(calls).explanation}

IsContextCall(fc) == fc.name = "provideContext"

C15_ContextOnlyIfDeclared ==
    [][\A s \in Sessions, msg \in Messages :
          (OnMessage(s, msg) /\ "provideContext" \notin tools[s]) =>
              /\ AllOf(msg.functionCalls, IsContextCall) =>
                     activeAiResponse' = activeAiResponse /\ notes' = notes
              /\ activeAiResponse' # activeAiResponse =>
                     activeAiResponse'.type # "context"]_vars

\* C16: archiving with an active note appends that note to the end of the
\* archive, whose notes keep their order, and empties the active slot;
\* without an active note it changes nothing; the transcript stays as it is.
C16_Archived ==
    /\ transcription' = transcription
    /\ activeAiResponse' = NoNote
    /\ notes' = IF activeAiResponse # NoNote
                THEN notes \o <<activeAiResponse>> ELSE notes

C16_ArchiveMovesActive == [][ArchiveClick => C16_Archived]_vars

C16_Witness ==
    /\ isListening
    /\ Len(notes) = 3 /\ notes[1].type = "tip" /\ notes[2].type = "tip"
    /\ notes[3].type = "qa" /\ notes[3].id = 3
    /\ activeAiResponse = NoNote
    /\ transcription = <<>>

(***************************************************************************)
(* Start guard, microphone failure, history, teardown order.               *)
(***************************************************************************)

\* Session s holds a resource that is in use.
Alive(s) ==
    \/ chan[s] \in {"connecting", "open"}
    \/ interval[s]
    \/ stream[s] = "live"
    \/ audio[s] = "running"

\* C17: a start is accepted only when the finalizing status is false, no
\* stopSession invocation is under way and no earlier session is running.
C17_NoStartWhileBusy ==
    [][StartClick =>
          /\ ~isGeneratingReport
          /\ ~Stopping
          /\ \A s \in Sessions : ~Alive(s)]_vars

\* C18: when getUserMedia fails, the start is given up: the session is not
\* listening, the microphone message is set, the start has opened no channel
\* and started no countdown, no record is added and no stop begins, and the
\* failed start is never resumed.
C18_Aborted(s) ==
    /\ ~isListening'
    /\ error' = "mic"
    /\ startPc'[s] = "failed"
    /\ chan'[s] = "none" /\ ~interval'[s] /\ stream'[s] = "none" /\ audio'[s] = "none"
    /\ sessionHistory' = sessionHistory
    /\ stops' = stops
    /\ cur' = cur

C18_MicFailureAbortsStart ==
    /\ [][\A s \in Sessions : MicReject(s) => C18_Aborted(s)]_vars
    /\ [][\A s \in Sessions : startPc[s] = "failed" => startPc'[s] = "failed"]_vars
    /\ [](\A s \in Sessions :
             startPc[s] = "failed" =>
                 chan[s] = "none" /\ ~interval[s] /\ stream[s] = "none" /\ tools[s] = {})

C18_Witness ==
    /\ startPc[1] = "failed" /\ cur = 1
    /\ error = "mic" /\ ~isListening
    /\ sessionHistory = <<>> /\ stops = <<>>

\* C19: every step leaves the history as it is or puts one new record in
\* front of it, and it does the latter exactly when a stopSession invocation
\* completes.
Done == {i \in 1 .. Len(stops) : stops[i].pc = "done"}

C19_HistoryOnlyPrepended ==
    [][\/ sessionHistory' = sessionHistory /\ Done' = Done
       \/ /\ Len(sessionHistory') = Len(sessionHistory) + 1
          /\ Tail(sessionHistory') = sessionHistory
          /\ Cardinality(Done' \ Done) = 1]_vars

C19_Witness ==
    /\ Len(sessionHistory) = 2
    /\ sessionHistory[1].sess = 2 /\ sessionHistory[1].report = "remote"
    /\ sessionHistory[2].sess = 1 /\ sessionHistory[2].report = "no-transcript"

\* C20: every stopSession invocation clears the interval first, then closes
\* the channel, then stops the microphone tracks and closes the audio context,
\* and begins finalize only when the close of the audio context has settled.
\* The resources are the ones the refs hold when each line runs.
TimerCancelled(p) == p.timer # 0 => ~interval[p.timer]
ChannelClosed(p) == p.chan # 0 => chan[p.chan] \in {"closing", "closed"}
CaptureStopped(p) == p.ms # 0 => stream[p.ms] = "stopped"
ContextClosed(p) == p.ctx # 0 => audio[p.ctx] = "closed"

C20_TeardownOrder ==
    \A i \in 1 .. Len(stops) :
        LET p == stops[i]
        IN /\ TimerCancelled(p)
           /\ p.pc = "close" => p.ms = 0 /\ p.ctx = 0
           /\ p.pc = "audio" =>
                  ChannelClosed(p) /\ CaptureStopped(p) /\ p.ctx # 0
           /\ p.pc \in {"gen", "done", "threw"} =>
                  ChannelClosed(p) /\ CaptureStopped(p) /\ ContextClosed(p)

C20_Witness ==
    \E i \in 1 .. Len(stops) :
        /\ stops[i].pc = "gen" /\ stops[i].cause = "timer"
        /\ stops[i].timer # 0 /\ stops[i].chan # 0
        /\ stops[i].ms # 0 /\ stops[i].ctx # 0

(***************************************************************************)
(* Teardown failures, reset of the note model, idle resources.             *)
(***************************************************************************)

\* C21: a stopSession invocation never ends inside the teardown: when the
\* channel did not connect or a close fails, the later steps still run, so
\* every invocation that is not waiting has gone on to finalize.
C21_TeardownBestEffort ==
    \A i \in 1 .. Len(stops) : stops[i].pc # "aborted"

\* C22: from the end of finalize until the next start (the orchestrator is
\* idle) the transcript is empty, the archive is empty and there is no active
\* note, so a start never finds data of an earlier session.
Idle == ~isListening /\ ~isGeneratingReport

NoteModelEmpty == transcription = <<>> /\ notes = <<>> /\ activeAiResponse = NoNote

C22_NoteModelResetAfterFinalize == Idle => NoteModelEmpty

\* C25: while the orchestrator is idle no interval is running, no channel is
\* connecting or open and no microphone stream is live.
C25_IdleHoldsNoResource ==
    Idle => \A s \in Sessions :
                /\ ~interval[s]
                /\ chan[s] \notin {"connecting", "open"}
                /\ stream[s] # "live"

(***************************************************************************)
(* Speech output.                                                          *)
(***************************************************************************)

\* C23: a message handled while the voice responses are off hands nothing to
\* the speech synthesis, and one handled while they are on hands it the
\* utterance of the last call it accepts.
C23_Spoken(msg) ==
    LET calls == msg.functionCalls
        said == UtteranceOf(calls[Len(calls)])
    IN IF isVoiceResponseEnabled THEN utterance' = said ELSE utterance' = utterance

C23_SpeechFollowsSetting ==
    [][\A s \in Sessions, msg \in VoiceMessages :
          OnMessage(s, msg) => C23_Spoken(msg)]_vars

(***************************************************************************)
(* Termination.                                                            *)
(***************************************************************************)

StopsOf(s) == {i \in 1 .. Len(stops) : stops[i].sess = s}

\* C24: a session that has started running ends by itself: once its 600
\* seconds have run a stop for it has begun, and the orchestrator then
\* becomes idle (not listening, not finalizing), where a start is accepted.
\* A behaviour that has used up the stop invocations of the exploration is
\* not held against the property.
C24_SessionEndsByItself ==
    /\ [](\A s \in Sessions :
             (isListening /\ cur = s /\ startPc[s] = "done"
                  /\ elapsed >= MAX_SESSION_TIME_SECONDS) => StopsOf(s) # {})
    /\ \A s \in Sessions :
           (isListening /\ cur = s /\ startPc[s] = "done")
               ~> (Idle \/ Len(stops) = MaxStops)

====
